---- MODULE Spec2Model ----
(***************************************************************************)
(* failprint's output capture (src/src/failprint/capture.py): the Capture  *)
(* enumeration, the CaptureManager context manager and the part of the     *)
(* process they act on: the descriptor table, the files behind the         *)
(* descriptors and the stream objects bound to sys.stdin, sys.stdout and   *)
(* sys.stderr.                                                             *)
(***************************************************************************)
EXTENDS Integers, Sequences, FiniteSets, TLC

\* Bounds of the model.
MaxFd == 8          \* highest descriptor number of the process (its descriptor limit)
MaxWrites == 2      \* writes issued over one behaviour
MaxScopes == 1      \* sessions constructed one after the other
MaxReuse == 1       \* times one session object is entered again after its exit

\* Capture members (capture.py 23-26), by their values.
STDOUT == "stdout"
STDERR == "stderr"
BOTH == "both"
NONE == "none"
Modes == {STDOUT, STDERR, BOTH, NONE}

\* Python's None, for the fields that hold an object or None.
None == [k |-> "None"]
\* An integer field not set yet (capture.py 115-118 initialise the fd fields to -1).
NoFd == -1

Fds == 0..MaxFd

\* Open files a descriptor can refer to.  The three standard destinations the
\* process starts with, the null device, and one temporary file per session.
OrigIn == [k |-> "file", name |-> "stdin", id |-> 0]
OrigOut == [k |-> "file", name |-> "stdout", id |-> 0]
OrigErr == [k |-> "file", name |-> "stderr", id |-> 0]
DevNull == [k |-> "file", name |-> "devnull", id |-> 0]
TempFile(n) == [k |-> "file", name |-> "failprint-", id |-> n]
Closed == [k |-> "closed"]

\* Kinds of byte chunks, by the encoding that produced them: valid UTF-8, and
\* bytes of the console code page that are not valid UTF-8.
Kinds == {"utf-8", "cp1252"}

\* Stream objects.  stdout0/stderr0 are the objects bound to sys.stdout and
\* sys.stderr when the process starts; reopen_out/reopen_err are the wrappers
\* _reopen_stdio builds; stdin0 is the initial sys.stdin, StringIO the override.
OutStreams == {"stdout0", "stderr0", "reopen_out", "reopen_err"}
Obj(id) == [k |-> "obj", id |-> id]
StringIO(text) == [k |-> "StringIO", text |-> text]

VARIABLES
    WINDOWS,          \* capture.py 17
    device_encoding,  \* what os.device_encoding(0) returns
    fdtab,            \* descriptor -> open file, or Closed
    content,          \* open file -> the chunks written to it, in order
    streams,          \* stream object -> [fd, closed, closefd, encoding, buf]
    sys_stdin,        \* the objects bound to sys.stdin, sys.stdout, sys.stderr
    sys_stdout,
    sys_stderr,
    self,             \* the fields of the CaptureManager under use
    pc,               \* where the caller is: idle, new, block, done, enter_failed
    raised,           \* the error that reached the caller from __enter__/__exit__
    block_exc,        \* whether the block was left by an exception
    exits,            \* calls of __exit__ on the session
    nscopes,          \* scopes opened so far: sessions constructed, and re-entries
    written,          \* every write issued, in order
    base,             \* the process as it was when __enter__ was called
    lastRead,         \* the last read from sys.stdin
    lastOutput,       \* the last read of .output
    lastCast          \* the last call of Capture.cast: argument, result, result cast again

vars ==
    <<WINDOWS, device_encoding, fdtab, content, streams, sys_stdin, sys_stdout,
      sys_stderr, self, pc, raised, block_exc, exits, nscopes, written, base,
      lastRead, lastOutput, lastCast>>

----------------------------------------------------------------------------
(* The process state the handlers work on, as one record, and the primitive *)
(* operations on it.  A record whose err is not "ok" carries a raised       *)
(* exception: every later step leaves it alone.                             *)

World ==
    [fdtab |-> fdtab, content |-> content, streams |-> streams,
     sys_stdin |-> sys_stdin, sys_stdout |-> sys_stdout, sys_stderr |-> sys_stderr,
     self |-> self, err |-> "ok"]

Raise(w, e) == IF w.err = "ok" THEN [w EXCEPT !.err = e] ELSE w

FreeFds(ft) == {fd \in Fds : ft[fd] = Closed}
OpenFds(ft) == {fd \in Fds : ft[fd] # Closed}
LowestFree(ft) == CHOOSE fd \in FreeFds(ft) : \A g \in FreeFds(ft) : fd <= g

Append2(ct, f, chunks) ==
    IF f \in DOMAIN ct THEN [ct EXCEPT ![f] = @ \o chunks] ELSE ct @@ (f :> chunks)

\* os.write(fd, chunks) and the write a flush ends in.
OsWrite(w, fd, chunks) ==
    IF w.err # "ok" \/ chunks = <<>> THEN w
    ELSE IF w.fdtab[fd] = Closed THEN Raise(w, "OSError")
    ELSE [w EXCEPT !.content = Append2(w.content, w.fdtab[fd], chunks)]

\* stream.flush(): ValueError on a closed stream, else the buffer goes to the
\* file the stream's descriptor refers to now.
Flush(w, s) ==
    IF w.err # "ok" THEN w
    ELSE IF w.streams[s].closed THEN Raise(w, "ValueError")
    ELSE LET w1 == OsWrite(w, w.streams[s].fd, w.streams[s].buf)
         IN IF w1.err # "ok" THEN w1 ELSE [w1 EXCEPT !.streams[s].buf = <<>>]

\* stream.close(): flushes, marks the object closed, and closes the descriptor
\* when the object owns it (closefd).
Close(w, s) ==
    IF w.err # "ok" \/ w.streams[s].closed THEN w
    ELSE LET w1 == Flush(w, s)
             fd == w.streams[s].fd
         IN [w1 EXCEPT !.streams[s].closed = TRUE,
                       !.fdtab[fd] = IF w.streams[s].closefd THEN Closed ELSE @]

\* The lowest free descriptor now refers to `file` (open, tempfile, os.dup).
\* OSError when the call is the one that fails, or no descriptor is free.
Alloc(w, file, failing) ==
    IF w.err # "ok" THEN w
    ELSE IF failing \/ FreeFds(w.fdtab) = {} THEN Raise(w, "OSError")
    ELSE [w EXCEPT !.fdtab[LowestFree(w.fdtab)] = file]

\* os.dup2(src, dst).
OsDup2(w, src, dst, failing) ==
    IF w.err # "ok" THEN w
    ELSE IF failing \/ src = NoFd \/ w.fdtab[src] = Closed THEN Raise(w, "OSError")
    ELSE [w EXCEPT !.fdtab[dst] = w.fdtab[src]]

Str(v) == [k |-> "str", v |-> v]
FileObj(fd, file) == [k |-> "fileobj", fd |-> fd, file |-> file, closed |-> FALSE]

----------------------------------------------------------------------------
(* Capture.cast *)

\* A Capture member as a Python value: an object of the enumeration, which is
\* not a str (capture.py 20), with its name and its value (23-26).
MemberName(m) ==
    CASE m = STDOUT -> "STDOUT"
      [] m = STDERR -> "STDERR"
      [] m = BOTH -> "BOTH"
      [] m = NONE -> "NONE"
Member(m) == [k |-> "Capture", name |-> MemberName(m), value |-> m]
Bool(b) == [k |-> "bool", v |-> b]

Returned(v) == [res |-> "ok", val |-> v]
Raised(e) == [res |-> e, val |-> None]

\* cls(value): the enumeration's lookup by value; ValueError when no member
\* has that value.
EnumLookup(value) ==
    IF value.k = "str" /\ \E m \in Modes : Member(m).value = value.v
    THEN Returned(Member(CHOOSE m \in Modes : Member(m).value = value.v))
    ELSE Raised("ValueError")

\* cast as a bug would have it: the test of capture.py 46-47 is missing.
CastWithoutFalse(value) ==
    IF value = None THEN Returned(Member(BOTH))
    ELSE IF value.k = "bool" /\ value.v THEN Returned(Member(BOTH))
    ELSE IF value.k = "Capture" THEN Returned(value)
    ELSE EnumLookup(value)

\* Capture.cast (capture.py 31-51)
cast(value) ==
    IF value = None THEN Returned(Member(BOTH))
    ELSE IF value.k = "bool" /\ value.v THEN Returned(Member(BOTH))
    ELSE IF value.k = "bool" /\ ~value.v THEN Returned(Member(NONE))
    ELSE IF value.k = "Capture" THEN Returned(value)
    ELSE EnumLookup(value)

----------------------------------------------------------------------------
(* CaptureManager *)

\* CaptureManager.__init__ (capture.py 101-119).  _new_stdout_fd and
\* _new_stderr_fd are not attributes before __enter__ sets them: NoFd here.
CaptureManager(capture, stdin) ==
    [_temp_file |-> None, _capture |-> capture, _devnull |-> None, _stdin |-> stdin,
     _saved_stderr |-> None, _saved_stdout |-> None, _saved_stdin |-> None,
     _stdout_fd |-> -1, _stderr_fd |-> -1,
     _saved_stdout_fd |-> -1, _saved_stderr_fd |-> -1,
     _new_stdout_fd |-> NoFd, _new_stderr_fd |-> NoFd,
     _output |-> None]

\* capture.py 126-127, as a bug would have it: nothing is flushed.
EnterWithoutFlush(w) == w

\* capture.py 126-127
EnterFlush(w) == Flush(Flush(w, w.sys_stdout.id), w.sys_stderr.id)

\* capture.py 130-132, as a bug would have it: the prior object is saved and
\* sys.stdin is left alone.
PatchStdinSaveOnly(w) ==
    IF w.err # "ok" \/ w.self._stdin = None THEN w
    ELSE [w EXCEPT !.self._saved_stdin = w.sys_stdin]

\* capture.py 130-132
PatchStdin(w) ==
    IF w.err # "ok" \/ w.self._stdin = None THEN w
    ELSE [w EXCEPT !.self._saved_stdin = w.sys_stdin, !.sys_stdin = StringIO(w.self._stdin)]

\* capture.py 135-136
OpenDevnull(w, fault) ==
    IF w.err # "ok" \/ w.self._capture \notin {STDOUT, STDERR} THEN w
    ELSE LET w1 == Alloc(w, DevNull, fault = "devnull")
         IN IF w1.err # "ok" THEN w1
            ELSE [w1 EXCEPT !.self._devnull = FileObj(LowestFree(w.fdtab), DevNull)]

\* capture.py 141: the n-th session's temporary file, empty.
CreateTempFile(w, fault, n) ==
    LET w1 == Alloc(w, TempFile(n), fault = "tempfile")
    IN IF w1.err # "ok" THEN w1
       ELSE [w1 EXCEPT !.self._temp_file = FileObj(LowestFree(w.fdtab), TempFile(n)),
                       !.content = Append2(w.content, TempFile(n), <<>>)]

\* _reopen_stdio (capture.py 245-259): a new wrapper over os.fdopen(f.fileno()),
\* which owns the descriptor.
ReopenStdio(w, f, new) ==
    [w EXCEPT !.streams[new] =
        [fd |-> w.streams[f].fd, closed |-> FALSE, closefd |-> TRUE,
         encoding |-> w.streams[f].encoding, buf |-> <<>>]]

\* capture.py 145-159
RedirectStdout(w, fault) ==
    IF w.err # "ok" THEN w
    ELSE
    LET fdw == w.self._temp_file.fd
        fd == w.streams[w.sys_stdout.id].fd
        w1 == [w EXCEPT !.self._saved_stdout = w.sys_stdout, !.self._stdout_fd = fd]
        w2 == IF w1.fdtab[fd] = Closed THEN Raise(w1, "OSError")
              ELSE Alloc(w1, w1.fdtab[fd], fault = "dup_stdout")
        w3 == IF w2.err # "ok" THEN w2
              ELSE [w2 EXCEPT !.self._new_stdout_fd = LowestFree(w1.fdtab)]
        w4 == IF w.self._capture \in {BOTH, STDOUT}
                THEN OsDup2(w3, fdw, fd, fault = "dup2_stdout")
              ELSE IF w.self._capture = STDERR
                THEN OsDup2(w3, w.self._devnull.fd, fd, fault = "dup2_stdout")
              ELSE w3
    IN IF w4.err = "ok" /\ WINDOWS
         THEN [ReopenStdio(w4, w4.sys_stdout.id, "reopen_out")
                 EXCEPT !.sys_stdout = Obj("reopen_out")]
         ELSE w4

\* capture.py 162-173
RedirectStderr(w, fault) ==
    IF w.err # "ok" THEN w
    ELSE
    LET fdw == w.self._temp_file.fd
        fd == w.streams[w.sys_stderr.id].fd
        w1 == [w EXCEPT !.self._saved_stderr = w.sys_stderr, !.self._stderr_fd = fd]
        w2 == IF w1.fdtab[fd] = Closed THEN Raise(w1, "OSError")
              ELSE Alloc(w1, w1.fdtab[fd], fault = "dup_stderr")
        w3 == IF w2.err # "ok" THEN w2
              ELSE [w2 EXCEPT !.self._new_stderr_fd = LowestFree(w1.fdtab)]
        w4 == IF w.self._capture \in {BOTH, STDERR}
                THEN OsDup2(w3, fdw, fd, fault = "dup2_stderr")
              ELSE IF w.self._capture = STDOUT
                THEN OsDup2(w3, w.self._devnull.fd, fd, fault = "dup2_stderr")
              ELSE w3
    IN IF w4.err = "ok" /\ WINDOWS
         THEN [ReopenStdio(w4, w4.sys_stderr.id, "reopen_err")
                 EXCEPT !.sys_stderr = Obj("reopen_err")]
         ELSE w4

\* CaptureManager.__enter__ (capture.py 121-175) of the n-th session; `fault`
\* names the OS call that fails, if one does.
\* __enter__ without the early return of capture.py 122-123.
EnterAlwaysRedirects(w, fault, n) ==
    RedirectStderr(
      RedirectStdout(
        CreateTempFile(OpenDevnull(PatchStdin(EnterFlush(w)), fault), fault, n),
        fault),
      fault)

enter(w, fault, n) ==
    IF w.self._capture = NONE THEN w
    ELSE RedirectStderr(
           RedirectStdout(
             CreateTempFile(OpenDevnull(PatchStdin(EnterFlush(w)), fault), fault, n),
             fault),
           fault)

\* capture.py 190-191
RestoreStdin(w) ==
    IF w.self._saved_stdin # None THEN [w EXCEPT !.sys_stdin = w.self._saved_stdin]
    ELSE w

\* A file object's close(): its descriptor is closed, once.
CloseFileObj(w, f) ==
    IF f.closed THEN w ELSE [w EXCEPT !.fdtab[f.fd] = Closed]

\* capture.py 194-195
CloseDevnull(w) ==
    IF w.self._devnull # None
      THEN [CloseFileObj(w, w.self._devnull) EXCEPT !.self._devnull.closed = TRUE]
    ELSE w

\* capture.py 198-201
FlushAndClose(w) ==
    LET out == w.sys_stdout.id
        err == w.sys_stderr.id
    IN Close(Flush(Close(Flush(w, out), out), err), err)

\* capture.py 204-205, as a bug would have it: stderr is left redirected.
RestoreStdoutOnly(w) ==
    OsDup2(w, w.self._new_stdout_fd, w.self._stdout_fd, FALSE)

\* capture.py 204-205
RestoreDescriptors(w) ==
    OsDup2(OsDup2(w, w.self._new_stdout_fd, w.self._stdout_fd, FALSE),
           w.self._new_stderr_fd, w.self._stderr_fd, FALSE)

\* capture.py 207-210
RestoreStreams(w) ==
    IF w.err # "ok" THEN w
    ELSE [w EXCEPT
            !.sys_stdout = IF w.self._saved_stdout # None THEN w.self._saved_stdout ELSE @,
            !.sys_stderr = IF w.self._saved_stderr # None THEN w.self._saved_stderr ELSE @]

\* The text a chunk decodes to: the chunk, and the codec that decoded it.
Txt(c, codec) == [n |-> c.n, s |-> c.s, codec |-> codec]

\* capture.py 227: bytes.decode("utf-8") of the whole file.
DecodeUtf8(data) ==
    IF \A i \in 1..Len(data) : data[i].k = "utf-8"
      THEN [err |-> "ok", text |-> Str([i \in 1..Len(data) |-> Txt(data[i], "utf-8")])]
    ELSE [err |-> "UnicodeDecodeError", text |-> None]

\* capture.py 220-223, one line: utf-8, and on UnicodeDecodeError the encoding
\* os.device_encoding(0) names; decode(None) is a TypeError.
LineError(c) ==
    IF c.k = "utf-8" THEN "ok"
    ELSE IF device_encoding = "None" THEN "TypeError"
    ELSE IF c.k = device_encoding THEN "ok"
    ELSE "UnicodeDecodeError"

\* capture.py 218-225: line by line; the first line that fails raises.
DecodeLines(data) ==
    LET bad == {i \in 1..Len(data) : LineError(data[i]) # "ok"}
        first == CHOOSE i \in bad : \A j \in bad : i <= j
    IN IF bad = {}
         THEN [err |-> "ok",
               text |-> Str([i \in 1..Len(data) |->
                   Txt(data[i], IF data[i].k = "utf-8" THEN "utf-8" ELSE device_encoding)])]
       ELSE [err |-> LineError(data[first]), text |-> None]

\* capture.py 213-228
ReadTempFile(w) ==
    IF w.err # "ok" \/ w.self._temp_file = None THEN w
    ELSE LET data == w.content[w.self._temp_file.file]
             d == IF WINDOWS THEN DecodeLines(data) ELSE DecodeUtf8(data)
         IN IF d.err # "ok" THEN Raise(w, d.err)
            ELSE [CloseFileObj(w, w.self._temp_file)
                    EXCEPT !.self._output = d.text, !.self._temp_file.closed = TRUE]

\* CaptureManager.__exit__ (capture.py 177-228)
exit(w) ==
    IF w.self._capture = NONE THEN Flush(Flush(w, w.sys_stdout.id), w.sys_stderr.id)
    ELSE ReadTempFile(
           RestoreStreams(
             RestoreDescriptors(FlushAndClose(CloseDevnull(RestoreStdin(w))))))

\* CaptureManager.output (capture.py 233-242), as a bug would have it: the
\* mode is not looked at.
OutputIgnoringMode(m) ==
    IF m._output = None THEN [res |-> "RuntimeError", val |-> None]
    ELSE [res |-> "ok", val |-> m._output]

\* CaptureManager.output (capture.py 233-242)
output(m) ==
    IF m._output = None /\ m._capture # NONE THEN [res |-> "RuntimeError", val |-> None]
    ELSE [res |-> "ok", val |-> m._output]

----------------------------------------------------------------------------
(* The process around the manager *)

Faults ==
    {"none", "devnull", "tempfile", "dup_stdout", "dup2_stdout", "dup_stderr",
     "dup2_stderr"}

StdinTexts == {None, Str("42\n")}

NoRead == [at |-> "never", res |-> "none", val |-> None]
NoCast == [arg |-> None, res |-> NoRead, again |-> NoRead]

Snapshot ==
    [fdtab |-> fdtab, sys_stdin |-> sys_stdin, sys_stdout |-> sys_stdout,
     sys_stderr |-> sys_stderr, streams |-> streams]

\* A Python process as it starts: descriptors 0, 1, 2, the stream objects over
\* them (which do not own their descriptors), nothing buffered.  sys.stdin is
\* None when the process was started with descriptor 0 closed.  The streams
\* encode in UTF-8 or, on a Windows console, in the console's code page.
Init ==
    /\ WINDOWS \in BOOLEAN
    /\ device_encoding \in (IF WINDOWS THEN {"None", "cp1252"} ELSE {"None"})
    /\ sys_stdin \in {Obj("stdin0"), None}
    /\ fdtab = [fd \in Fds |->
                  IF fd = 0 THEN (IF sys_stdin = None THEN Closed ELSE OrigIn)
                  ELSE IF fd = 1 THEN OrigOut
                  ELSE IF fd = 2 THEN OrigErr
                  ELSE Closed]
    /\ content = (OrigOut :> <<>>) @@ (OrigErr :> <<>>) @@ (DevNull :> <<>>)
    /\ \E enc \in (IF device_encoding = "None" THEN {"utf-8"}
                    ELSE {"utf-8", device_encoding}) :
         streams = [s \in OutStreams |->
                      [fd |-> IF s = "stdout0" THEN 1 ELSE IF s = "stderr0" THEN 2 ELSE NoFd,
                       closed |-> s \notin {"stdout0", "stderr0"},
                       closefd |-> s \notin {"stdout0", "stderr0"},
                       encoding |-> enc,
                       buf |-> <<>>]]
    /\ sys_stdout = Obj("stdout0")
    /\ sys_stderr = Obj("stderr0")
    /\ self = None
    /\ pc = "idle"
    /\ raised = "ok"
    /\ block_exc = FALSE
    /\ exits = 0
    /\ nscopes = 0
    /\ written = <<>>
    /\ base = Snapshot
    /\ lastRead = NoRead
    /\ lastOutput = NoRead
    /\ lastCast = NoCast

Commit(w) ==
    /\ fdtab' = w.fdtab
    /\ content' = w.content
    /\ streams' = w.streams
    /\ sys_stdin' = w.sys_stdin
    /\ sys_stdout' = w.sys_stdout
    /\ sys_stderr' = w.sys_stderr
    /\ self' = w.self

\* CaptureManager(mode, stdin=stdin): capture.py 77, 101-119
New(mode, stdin) ==
    /\ pc \in {"idle", "done", "enter_failed"}
    /\ nscopes < MaxScopes
    /\ self' = CaptureManager(mode, stdin)
    /\ pc' = "new"
    /\ nscopes' = nscopes + 1
    /\ exits' = 0
    /\ raised' = "ok"
    /\ block_exc' = FALSE
    /\ lastRead' = NoRead
    /\ lastOutput' = NoRead
    /\ UNCHANGED <<lastCast, WINDOWS, device_encoding, fdtab, content, streams, sys_stdin,
                   sys_stdout, sys_stderr, written, base>>

\* `with manager:` reaches the block (capture.py 77, 121-175), or __enter__
\* raises and the error reaches the caller; __exit__ is not called then.
Enter(fault) ==
    /\ pc = "new"
    /\ LET w == enter(World, fault, nscopes)
       IN /\ fault # "none" => w.err = "OSError"
          /\ Commit(w)
          /\ pc' = IF w.err = "ok" THEN "block" ELSE "enter_failed"
          /\ raised' = w.err
    /\ base' = Snapshot
    /\ lastRead' = NoRead
    /\ UNCHANGED <<lastCast, WINDOWS, device_encoding, block_exc, exits, nscopes, written,
                   lastOutput>>

\* The block is left, normally or by an exception (exc): the with statement of
\* capture.py 77-78 calls __exit__, whose error, if any, reaches the caller.
Leave(exc) ==
    /\ pc = "block"
    /\ LET w == exit(World)
       IN /\ Commit(w)
          /\ raised' = w.err
    /\ pc' = "done"
    /\ block_exc' = exc
    /\ exits' = exits + 1
    /\ UNCHANGED <<lastCast, WINDOWS, device_encoding, nscopes, written, base, lastRead,
                   lastOutput>>

\* The manager that has exited is used in a with statement again: nothing in
\* capture.py 101-228 marks a session as used, so __enter__ runs as the first
\* time, on the fields the first use left.  The scope it opens is a new one.
Reenter ==
    /\ pc = "done"
    /\ exits <= MaxReuse
    /\ LET w == enter(World, "none", nscopes + 1)
       IN /\ Commit(w)
          /\ pc' = IF w.err = "ok" THEN "block" ELSE "enter_failed"
          /\ raised' = w.err
    /\ nscopes' = nscopes + 1
    /\ base' = Snapshot
    /\ UNCHANGED <<lastCast, WINDOWS, device_encoding, block_exc, exits, written, lastRead,
                   lastOutput>>

\* The values cast is called with: nothing, a boolean, a member, a text.
CastTexts == {"stdout", "stderr", "both", "none", "loud", "STDOUT", "Both", "", "all"}
CastValues ==
    {None, Bool(TRUE), Bool(FALSE)} \cup {Member(m) : m \in Modes}
        \cup {Str(s) : s \in CastTexts}

\* Capture.cast(value), and cast applied to what it returned.
Cast(value) ==
    /\ lastCast' = [arg |-> value, res |-> cast(value),
                    again |-> IF cast(value).res = "ok" THEN cast(cast(value).val)
                              ELSE NoRead]
    /\ UNCHANGED <<fdtab, content, streams, sys_stdin, sys_stdout, sys_stderr, self,
                   pc, raised, block_exc, exits, nscopes, written, base, lastRead,
                   lastOutput, WINDOWS, device_encoding>>

\* Capture.cast(value).here(): the session of the mode the cast returned.
Here ==
    /\ lastCast.res.res = "ok"
    /\ New(lastCast.res.val.value, None)

Chunk(s, k, via, ok) ==
    [n |-> Len(written) + 1, s |-> s, k |-> k, via |-> via, ok |-> ok,
     sc |-> IF pc = "block" THEN nscopes ELSE 0,
     post |-> pc = "done" /\ self._capture # NONE]

SysStream(s) == IF s = STDOUT THEN sys_stdout.id ELSE sys_stderr.id

\* sys.stdout.write / sys.stderr.write / print: the text, in the stream's
\* encoding, goes into the stream object's buffer, which the write flushes or
\* not (line buffering, a full buffer).
WriteStream(s, flushNow) ==
    /\ pc \in {"idle", "block", "done"}
    /\ Len(written) < MaxWrites
    /\ LET o == SysStream(s)
           c == Chunk(s, streams[o].encoding, "stream", ~streams[o].closed)
           w1 == [World EXCEPT !.streams[o].buf = Append(@, c)]
           w2 == IF flushNow THEN Flush(w1, o) ELSE w1
       IN /\ written' = Append(written, c)
          /\ IF streams[o].closed THEN Commit(World)
             ELSE IF w2.err = "ok" THEN Commit(w2)
             ELSE Commit(w1)
    /\ UNCHANGED <<lastCast, WINDOWS, device_encoding, pc, raised, block_exc, exits, nscopes,
                   base, lastRead, lastOutput>>

\* A write to descriptor 1 or 2 that passes no stream object: os.write, a
\* child process run synchronously (os.system, subprocess.run).
WriteFd(s, k) ==
    /\ pc \in {"idle", "block", "done"}
    /\ Len(written) < MaxWrites
    /\ LET fd == IF s = STDOUT THEN 1 ELSE 2
           c == Chunk(s, k, "fd", fdtab[fd] # Closed)
       IN /\ written' = Append(written, c)
          /\ Commit(IF c.ok THEN OsWrite(World, fd, <<c>>) ELSE World)
    /\ UNCHANGED <<lastCast, WINDOWS, device_encoding, pc, raised, block_exc, exits, nscopes,
                   base, lastRead, lastOutput>>

\* input() / sys.stdin.read(): from the object bound to sys.stdin now.
ReadInput ==
    /\ lastRead = NoRead
    /\ lastRead' =
         IF sys_stdin = None THEN [at |-> pc, res |-> "AttributeError", val |-> None]
         ELSE IF sys_stdin.k = "StringIO"
           THEN [at |-> pc, res |-> "ok", val |-> sys_stdin.text]
         ELSE [at |-> pc, res |-> "ok", val |-> Str("original input")]
    /\ UNCHANGED <<lastCast, WINDOWS, device_encoding, fdtab, content, streams, sys_stdin,
                   sys_stdout, sys_stderr, self, pc, raised, block_exc, exits,
                   nscopes, written, base, lastOutput>>

\* manager.output / str(manager): capture.py 230-242
ReadOutput ==
    /\ pc \in {"new", "block", "done"}
    /\ lastOutput.at # pc
    /\ lastOutput' = [at |-> pc] @@ output(self)
    /\ UNCHANGED <<lastCast, WINDOWS, device_encoding, fdtab, content, streams, sys_stdin,
                   sys_stdout, sys_stderr, self, pc, raised, block_exc, exits,
                   nscopes, written, base, lastRead>>

Next ==
    \/ \E mode \in Modes, stdin \in StdinTexts : New(mode, stdin)
    \/ \E fault \in Faults : Enter(fault)
    \/ \E exc \in BOOLEAN : Leave(exc)
    \/ \E s \in {STDOUT, STDERR}, flushNow \in BOOLEAN : WriteStream(s, flushNow)
    \/ \E s \in {STDOUT, STDERR}, k \in Kinds : WriteFd(s, k)
    \/ ReadInput
    \/ ReadOutput

Spec == Init /\ [][Next]_vars

\* The capture of output alone: the process has its stdin, no override is
\* given and no OS call fails.
InitCapture == Init /\ sys_stdin = Obj("stdin0")

NextCapture ==
    \/ \E mode \in Modes : New(mode, None)
    \/ Enter("none")
    \/ \E exc \in BOOLEAN : Leave(exc)
    \/ \E s \in {STDOUT, STDERR}, flushNow \in BOOLEAN : WriteStream(s, flushNow)
    \/ \E s \in {STDOUT, STDERR}, k \in Kinds : WriteFd(s, k)

SpecCapture == InitCapture /\ [][NextCapture]_vars

\* The output accessor: the session's life, the bytes that reach the
\* descriptors, and the reads of .output.
NextOutput ==
    \/ \E mode \in Modes : New(mode, None)
    \/ Enter("none")
    \/ \E exc \in BOOLEAN : Leave(exc)
    \/ \E s \in {STDOUT, STDERR}, k \in Kinds : WriteFd(s, k)
    \/ ReadOutput

SpecOutput == InitCapture /\ [][NextOutput]_vars

\* The input side alone: nothing is written.
NextStdin ==
    \/ \E mode \in Modes, stdin \in StdinTexts : New(mode, stdin)
    \/ \E fault \in Faults : Enter(fault)
    \/ \E exc \in BOOLEAN : Leave(exc)
    \/ ReadInput

SpecStdin == Init /\ [][NextStdin]_vars

\* A mode given as an option value is cast, and the session of that mode runs.
NextCast ==
    \/ \E value \in CastValues : Cast(value)
    \/ Here
    \/ Enter("none")
    \/ \E exc \in BOOLEAN : Leave(exc)

SpecCast == InitCapture /\ [][NextCast]_vars

\* One session object over its whole life, entered again after it exited.
NextReuse ==
    \/ \E mode \in Modes : New(mode, None)
    \/ Enter("none")
    \/ \E exc \in BOOLEAN : Leave(exc)
    \/ Reenter
    \/ \E s \in {STDOUT, STDERR}, k \in Kinds : WriteFd(s, k)
    \/ ReadOutput

SpecReuse == InitCapture /\ [][NextReuse]_vars

----------------------------------------------------------------------------
(* Properties *)

InFile(c, f) == f \in DOMAIN content /\ \E i \in 1..Len(content[f]) : content[f][i] = c
InBuffer(c, o) == \E i \in 1..Len(streams[o].buf) : streams[o].buf[i] = c
FdOf(s) == IF s = STDOUT THEN 1 ELSE 2
Ids(seq) == [i \in 1..Len(seq) |-> seq[i].n]
InScope(c) == c.sc = nscopes
\* The chunks written during the session's scope to the streams in S, in the
\* order the writes were issued.
ScopeChunks(S) == SelectSeq(written, LAMBDA c : InScope(c) /\ c.s \in S)

\* C1: once a scope has exited, the descriptors open in the process are those
\* that were open when it was entered.
C1_NoDescriptorLeak ==
    pc = "done" => OpenFds(fdtab) = OpenFds(base.fdtab)

\* C2: a write through sys.stdout or sys.stderr made after a scope of a mode
\* other than NONE has exited succeeds, and goes to the destination the stream
\* had before the scope, not to the temporary file or the null device.
C2_WritesAfterScopeReachOriginal ==
    \A i \in 1..Len(written) :
        LET c == written[i]
        IN c.post /\ c.via = "stream" =>
             /\ c.ok
             /\ \/ InFile(c, base.fdtab[FdOf(c.s)])
                \/ InBuffer(c, SysStream(c.s))

\* C3: when a BOTH scope has exited and produced its text, the text holds the
\* chunks written during the scope to stdout and stderr, through the stream
\* objects or straight to the descriptors, in the order they were issued.
C3_BothKeepsOrder ==
    pc = "done" /\ self._capture = BOTH /\ raised = "ok" =>
        /\ self._output # None
        /\ Ids(self._output.v) = Ids(ScopeChunks({STDOUT, STDERR}))

\* C4: inside the block __exit__ has not run; once the block has been left,
\* normally or by an exception, __exit__ has run exactly once and descriptors
\* 1 and 2 refer to what they referred to before entry.
C4_FinalizedOnceOnEveryPath ==
    /\ pc = "block" => exits = 0
    /\ pc = "done" =>
         /\ exits = 1
         /\ fdtab[1] = base.fdtab[1]
         /\ fdtab[2] = base.fdtab[2]

\* C4's case: a redirecting scope left by an exception.
C4_Witness ==
    pc = "done" /\ block_exc /\ self._capture = STDOUT /\ exits = 1

\* C5: after a STDOUT scope, no stderr write of the scope is in .output or in
\* the original stderr destination and every stdout write of the scope is in
\* .output; after a STDERR scope the same with the streams exchanged.
C5_OtherStreamDiscarded ==
    pc = "done" /\ self._capture \in {STDOUT, STDERR} =>
        LET kept == IF self._capture = STDOUT THEN STDOUT ELSE STDERR
            dropped == IF self._capture = STDOUT THEN STDERR ELSE STDOUT
        IN /\ self._output # None
           /\ Ids(self._output.v) = Ids(ScopeChunks({kept}))
           /\ \A i \in 1..Len(written) :
                InScope(written[i]) /\ written[i].s = dropped =>
                    ~InFile(written[i], base.fdtab[FdOf(dropped)])

\* C6: when an OS call of __enter__ fails, the caller gets the error with
\* sys.stdin, descriptors 1 and 2 and the set of open descriptors as they
\* were before __enter__.
C6_FailedEnterUndone ==
    pc = "enter_failed" /\ raised = "OSError" =>
        /\ sys_stdin = base.sys_stdin
        /\ fdtab[1] = base.fdtab[1]
        /\ fdtab[2] = base.fdtab[2]
        /\ OpenFds(fdtab) = OpenFds(base.fdtab)

\* C7: whatever bytes were captured, __exit__ raises no decoding error and
\* sets the captured text.
C7_ExitNeverFailsOnBytes ==
    pc = "done" /\ self._capture # NONE =>
        /\ raised \notin {"UnicodeDecodeError", "TypeError"}
        /\ self._output # None

C9_OverrideReadInAnyMode ==
    lastRead.at = "block" /\ self._stdin # None =>
        lastRead.res = "ok" /\ lastRead.val = self._stdin

\* C9 amended: with a stdin override and a mode other than NONE, a read from
\* sys.stdin inside the scope returns the override text.
C9_OverrideReadWhenCapturing ==
    lastRead.at = "block" /\ self._stdin # None /\ self._capture # NONE =>
        lastRead.res = "ok" /\ lastRead.val = self._stdin

\* C9's case: the override was read inside a capturing scope.
C9_Witness ==
    /\ lastRead.at = "block"
    /\ self._capture = STDERR
    /\ self._stdin = Str("42\n")
    /\ lastRead.val = Str("42\n")

\* C10: once a scope has exited, sys.stdin is the object it was before entry.
C10_StdinObjectRestored ==
    pc = "done" => sys_stdin = base.sys_stdin

\* C11: in and after a scope of mode NONE the descriptor table and the objects
\* bound to sys.stdout and sys.stderr are what they were at entry, the session
\* has opened no temporary file and no null device, and every write the scope
\* made (one that a stream or descriptor accepted) is in the destination its
\* descriptor had at entry, or still in the buffer of the stream it went to.
C11_NoneRedirectsNothing ==
    pc \in {"block", "done"} /\ self._capture = NONE =>
        /\ fdtab = base.fdtab
        /\ sys_stdout = base.sys_stdout
        /\ sys_stderr = base.sys_stderr
        /\ self._temp_file = None
        /\ self._devnull = None
        /\ \A i \in 1..Len(written) :
             LET c == written[i]
             IN InScope(c) /\ c.ok =>
                  \/ InFile(c, base.fdtab[FdOf(c.s)])
                  \/ c.via = "stream" /\ InBuffer(c, SysStream(c.s))

\* C11's case: a NONE scope that has exited, with a write of the scope in the
\* original stdout destination.
C11_Witness ==
    /\ pc = "done"
    /\ self._capture = NONE
    /\ \E i \in 1..Len(written) :
         /\ InScope(written[i])
         /\ written[i].s = STDOUT
         /\ written[i].via = "stream"
         /\ InFile(written[i], OrigOut)

\* C12: the captured text of a session object is None until its first
\* __exit__, and no step of the same session object (__enter__, __exit__, a
\* read of .output) replaces a text that is set with another value.
C12_OutputSetOnce ==
    [][/\ pc # "idle" /\ exits = 0 => self._output = None
       /\ pc # "idle" /\ pc' # "new" /\ self._output # None
            => self'._output = self._output]_vars

\* C13: once __exit__ of a session of a mode other than NONE has returned or
\* raised, the session's temporary file, which is its own, is closed and no
\* descriptor of the process refers to it.
C13_TempFileClosedOnEveryPath ==
    pc = "done" /\ self._capture # NONE =>
        /\ self._temp_file # None
        /\ self._temp_file.file = TempFile(nscopes)
        /\ self._temp_file.closed
        /\ \A fd \in Fds : fdtab[fd] # TempFile(nscopes)

\* str.lower on the texts of the model (capture.py 28-29 applies it to a value).
Lower(s) ==
    CASE s = "STDOUT" -> "stdout"
      [] s = "STDERR" -> "stderr"
      [] s = "BOTH" -> "both"
      [] s = "NONE" -> "none"
      [] s = "Both" -> "both"
      [] OTHER -> s

\* C14: cast returns BOTH for None and for True, NONE for False, the member
\* itself for a Capture member, the member of that name for a text equal to a
\* member's name in lowercase, and raises for any other text; casting what a
\* successful cast returned returns the same member.
C14_CastNormalizes ==
    lastCast # NoCast =>
        LET v == lastCast.arg
            r == lastCast.res
        IN /\ v.k = "None" => r = Returned(Member(BOTH))
           /\ v.k = "bool" => r = Returned(Member(IF v.v THEN BOTH ELSE NONE))
           /\ v.k = "Capture" => r = Returned(v)
           /\ v.k = "str" =>
                IF \E m \in Modes : v.v = Lower(MemberName(m))
                THEN \E m \in Modes : v.v = Lower(MemberName(m)) /\ r = Returned(Member(m))
                ELSE r.res = "ValueError"
           /\ r.res = "ok" => lastCast.again = r

\* C14's case: False was cast to NONE, and NONE cast again is NONE.
C14_Witness ==
    /\ lastCast.arg = Bool(FALSE)
    /\ lastCast.res = Returned(Member(NONE))
    /\ lastCast.again = Returned(Member(NONE))

\* C15: inside a NONE scope nothing written before entry is still in the
\* buffer of sys.stdout or sys.stderr: __enter__ has flushed it to its
\* destination.
C15_NoneFlushesAtEntry ==
    pc = "block" /\ self._capture = NONE =>
        \A s \in {STDOUT, STDERR} :
            \A i \in 1..Len(streams[SysStream(s)].buf) :
                InScope(streams[SysStream(s)].buf[i])

\* The chunks in the buffers of sys.stdout and sys.stderr when __enter__ was
\* called.
BufferedAtEntry ==
    {c \in {written[i] : i \in 1..Len(written)} :
        \E s \in {base.sys_stdout.id, base.sys_stderr.id} :
            \E j \in 1..Len(base.streams[s].buf) : base.streams[s].buf[j] = c}

\* C16: inside and after a scope of a mode other than NONE, every chunk that
\* was in the buffer of sys.stdout or sys.stderr at entry is in the destination
\* its descriptor had at entry, and is neither in the session's temporary
\* file, nor in the null device, nor in .output.
C16_BufferedBeforeEntryNotCaptured ==
    pc \in {"block", "done"} /\ self._capture # NONE =>
        \A c \in BufferedAtEntry :
            /\ InFile(c, base.fdtab[FdOf(c.s)])
            /\ ~InFile(c, TempFile(nscopes))
            /\ ~InFile(c, DevNull)
            /\ self._output # None =>
                 \A i \in 1..Len(self._output.v) : self._output.v[i].n # c.n

\* C16's case: a capturing scope entered with a chunk buffered in sys.stdout,
\* exited with its text produced.
C16_Witness ==
    /\ pc = "done"
    /\ self._capture = BOTH
    /\ self._output # None
    /\ \E c \in BufferedAtEntry : c.s = STDOUT /\ InFile(c, OrigOut)

\* The streams a mode captures.
Captured(mode) ==
    IF mode = BOTH THEN {STDOUT, STDERR} ELSE IF mode = NONE THEN {} ELSE {mode}

\* C17: after a scope of a mode other than NONE, every chunk the scope wrote
\* through sys.stdout or sys.stderr to a captured stream (also one still
\* buffered when the block was left) is in .output, and none is in the
\* stream's original destination.
C17_BufferedAtExitCaptured ==
    pc = "done" /\ self._capture # NONE =>
        \A i \in 1..Len(written) :
            LET c == written[i]
            IN InScope(c) /\ c.via = "stream" /\ c.ok /\ c.s \in Captured(self._capture) =>
                 /\ self._output # None
                 /\ \E j \in 1..Len(self._output.v) : self._output.v[j].n = c.n
                 /\ ~InFile(c, base.fdtab[FdOf(c.s)])

\* C18: after a scope of a mode other than NONE, descriptors 1 and 2 refer to
\* the files they referred to at entry, sys.stdout and sys.stderr are bound to
\* the objects they were bound to at entry, and these objects are open or
\* closed as they were at entry.
C18_StreamsAsBeforeEntry ==
    pc = "done" /\ self._capture # NONE =>
        /\ fdtab[1] = base.fdtab[1]
        /\ fdtab[2] = base.fdtab[2]
        /\ sys_stdout = base.sys_stdout
        /\ sys_stderr = base.sys_stderr
        /\ streams[sys_stdout.id].closed = base.streams[sys_stdout.id].closed
        /\ streams[sys_stderr.id].closed = base.streams[sys_stderr.id].closed

\* C19: when the block of a scope was left by an exception, that exception is
\* what reaches the caller (__exit__ raised nothing in its place), .output can
\* be read, and for a mode other than NONE it holds the chunks that the scope
\* wrote to the captured streams.
C19_BlockExceptionPropagates ==
    pc = "done" /\ block_exc =>
        /\ raised = "ok"
        /\ output(self).res = "ok"
        /\ self._capture # NONE =>
             {output(self).val.v[j].n : j \in 1..Len(output(self).val.v)}
               = {written[i].n : i \in {i \in 1..Len(written) :
                                          /\ InScope(written[i])
                                          /\ written[i].ok
                                          /\ written[i].s \in Captured(self._capture)}}

====
